---- MODULE Spec2Model ----
(***************************************************************************)
(* A model of the SysBot.NET socket API client: the AsyncSocket connection *)
(* manager (connect, connect timeout, reconnect loop), and the             *)
(* SocketAPIClient built on it (start, the data handler that splits the    *)
(* inbound bytes into frames, the heartbeat echo and check timer, and the  *)
(* request/response correlator of sendRequest).                            *)
(*                                                                         *)
(* Time is abstracted: a timer that is armed may fire at any moment.  One  *)
(* action is one turn of the event loop: an event handler together with    *)
(* the promise continuations it schedules.                                 *)
(***************************************************************************)
EXTENDS Integers, Sequences, FiniteSets, TLC

(***************************************************************************)
(* Bounds of the model.                                                    *)
(***************************************************************************)
\* frames the server sends in one behaviour
MaxFrames == 2
\* sendRequest calls made in one behaviour
MaxCalls == 2
\* AsyncSocket instances created by start in one behaviour
MaxSockets == 2
\* heartbeat intervals left armed behind the one this.heartbeatInterval names
MaxStale == 1
\* 'eventReceived' listeners registered at one time
MaxSubs == 2
\* times a heartbeat interval fires in one behaviour
MaxChecks == 2
\* start calls made while connected in one behaviour
MaxRefused == 1

(***************************************************************************)
(* The wire.  A byte of the stream is a token: NUL is the zero byte of the *)
(* sentinel, "h" and "b" the heartbeat marker, "7" a digit, "null" the     *)
(* JSON literal, "{" and "}" the braces of a JSON object and the other     *)
(* tokens one "key":value member each.                                     *)
(***************************************************************************)
NUL == "Z"

Sentinel == <<NUL, NUL>>

MemberTokens ==
    {"s:okay", "s:error", "s:bad", "i:a", "i:b", "t:response", "t:event",
     "t:bad", "e", "v"}

\* the value JavaScript reads from a member that is not there
Undefined == "undefined"

\* JSON.parse of a text that is no JSON value throws SyntaxError
SyntaxError == [kind |-> "SyntaxError", status |-> Undefined, id |-> Undefined,
                type |-> Undefined, error |-> FALSE, value |-> FALSE]

EmptyObject == [kind |-> "object", status |-> Undefined, id |-> Undefined,
                type |-> Undefined, error |-> FALSE, value |-> FALSE]

\* a JSON value that is not an object: null, a number
Primitive(k) == [EmptyObject EXCEPT !.kind = k]

\* one "key":value member added to an object (a repeated key: the last wins)
WithMember(obj, tok) ==
    CASE tok = "s:okay"     -> [obj EXCEPT !.status = "okay"]
      [] tok = "s:error"    -> [obj EXCEPT !.status = "error"]
      [] tok = "s:bad"      -> [obj EXCEPT !.status = "bad"]
      [] tok = "i:a"        -> [obj EXCEPT !.id = "a"]
      [] tok = "i:b"        -> [obj EXCEPT !.id = "b"]
      [] tok = "t:response" -> [obj EXCEPT !.type = "response"]
      [] tok = "t:event"    -> [obj EXCEPT !.type = "event"]
      [] tok = "t:bad"      -> [obj EXCEPT !.type = "bad"]
      [] tok = "e"          -> [obj EXCEPT !.error = TRUE]
      [] tok = "v"          -> [obj EXCEPT !.value = TRUE]
      [] OTHER              -> obj

RECURSIVE Members(_, _)
Members(toks, obj) ==
    IF toks = <<>> THEN obj
    ELSE Members(Tail(toks), WithMember(obj, Head(toks)))

\* JSON.parse(text): the value, or SyntaxError
JSONParse(text) ==
    IF text = <<"null">> THEN Primitive("null")
    ELSE IF text = <<"7">> THEN Primitive("number")
    ELSE IF /\ Len(text) >= 2
            /\ text[1] = "{"
            /\ text[Len(text)] = "}"
            /\ \A i \in 2..(Len(text) - 1) : text[i] \in MemberTokens
         THEN Members(SubSeq(text, 2, Len(text) - 1), EmptyObject)
         ELSE SyntaxError

\* String.prototype.split('\0\0'): the pieces between the matches, found
\* left to right, the empty ones and the last one included
RECURSIVE SplitFrom(_, _, _)
SplitFrom(text, piece, pieces) ==
    IF text = <<>> THEN Append(pieces, piece)
    ELSE IF Len(text) >= 2 /\ text[1] = NUL /\ text[2] = NUL
         THEN SplitFrom(SubSeq(text, 3, Len(text)), <<>>, Append(pieces, piece))
         ELSE SplitFrom(Tail(text), Append(piece, Head(text)), pieces)

Split(text) == SplitFrom(text, <<>>, <<>>)

\* res.replace(/\0\0/gi, ''): every sentinel removed, left to right
RECURSIVE RemoveSentinels(_)
RemoveSentinels(text) ==
    IF text = <<>> THEN <<>>
    ELSE IF Len(text) >= 2 /\ text[1] = NUL /\ text[2] = NUL
         THEN RemoveSentinels(SubSeq(text, 3, Len(text)))
         ELSE <<Head(text)>> \o RemoveSentinels(Tail(text))

RECURSIVE MapRemove(_)
MapRemove(pieces) ==
    IF pieces = <<>> THEN <<>>
    ELSE <<RemoveSentinels(Head(pieces))>> \o MapRemove(Tail(pieces))

NotEmpty(res) == res # <<>>

\* the decodedResponses of one 'data' chunk
DecodedResponses(data) == SelectSeq(MapRemove(Split(data)), NotEmpty)

\* decodedResponse.startsWith('hb')
StartsWithHb(res) == Len(res) >= 2 /\ res[1] = "h" /\ res[2] = "b"

\* 'status' in obj throws TypeError when obj is not an object
InThrows(obj) == obj.kind # "object"

isInstanceOfSocketAPIMessage(obj) ==
    /\ obj.status # Undefined /\ obj.status \in {"okay", "error"}
    /\ obj.type # Undefined /\ obj.type \in {"event", "response"}
    /\ (obj.error \/ obj.value)

(***************************************************************************)
(* State.                                                                  *)
(***************************************************************************)
VARIABLES
    sock,               \* the AsyncSocket instances start has created
    nSockets,           \* how many there are
    cur,                \* the client's this.socket (0: one never connected)
    options,            \* the client's this.options
    hbLatest,           \* the interval this.heartbeatInterval names is armed
    hbStale,            \* armed intervals this.heartbeatInterval no longer names
    receivedHeartbeat,  \* the client's this.receivedHeartbeat
    calls,              \* the sendRequest calls made, in the order made
    subs,               \* the 'eventReceived' listeners, in the order added
    written,            \* the socket.write calls made
    dispatched,         \* what the data handler did with each fragment
    invoked,            \* the subscriber invocations made
    crashed,            \* an exception left an event handler uncaught
    wire,               \* per socket: bytes received and not yet handed over
    delivered,          \* per socket: the bytes handed to 'data' listeners
    nSent,              \* frames the server has sent
    refused,            \* start calls that returned false as already connected
    checks,             \* the heartbeat checks made, in the order made
    wanted,             \* per callback: subscribe calls not yet undone
    chunks              \* 'data' events emitted

vars == <<sock, nSockets, cur, options, hbLatest, hbStale, receivedHeartbeat,
          calls, subs, written, dispatched, invoked, crashed, wire, delivered,
          nSent, refused, checks, wanted, chunks>>

Sockets == 1..MaxSockets

(***************************************************************************)
(* Promises.  A promise is settled once: resolve and reject on a settled   *)
(* promise do nothing.                                                     *)
(***************************************************************************)
NoReason == [kind |-> "none", id |-> Undefined, ms |-> 0]

\* a resolve that settles a promise again
resolveAgain(c, message) ==
    [c EXCEPT !.st = "resolved", !.result = message]

resolve(c, message) ==
    IF c.st = "pending" THEN [c EXCEPT !.st = "resolved", !.result = message]
    ELSE c

reject(c, why) ==
    IF c.st = "pending" THEN [c EXCEPT !.st = "rejected", !.reason = why]
    ELSE c

(***************************************************************************)
(* sendRequest.                                                            *)
(***************************************************************************)
defaultRequestTimeout == 2000

\* the timeout argument of sendRequest: left out, or a number of ms
TimeoutArgs == {[given |-> FALSE, ms |-> 0], [given |-> TRUE, ms |-> 500]}

RequestIds == {"a", "b", Undefined}

\* JSON.stringify(request): a member that is undefined is left out
Stringify(id) ==
    CASE id = "a" -> <<"{", "i:a", "ep", "}">>
      [] id = "b" -> <<"{", "i:b", "ep", "}">>
      [] OTHER    -> <<"{", "ep", "}">>

\* an executor that does not look at isConnected()
ExecutorWithoutConnectedCheck(connected, id, timeoutArg) ==
    LET timeout == IF timeoutArg.given THEN timeoutArg.ms
                   ELSE defaultRequestTimeout
        c0 == [id |-> id, timeout |-> timeout, conn |-> connected,
               st |-> "pending",
               result |-> EmptyObject, reason |-> NoReason,
               listener |-> FALSE, timer |-> FALSE]
        c2 == IF id = Undefined
              THEN reject(c0, [kind |-> "idUndefined", id |-> Undefined, ms |-> 0])
              ELSE c0
    IN  [c2 EXCEPT !.timer = TRUE, !.listener = TRUE]

\* the executor of the promise sendRequest returns
SendRequestExecutor(connected, id, timeoutArg) ==
    LET timeout == IF timeoutArg.given THEN timeoutArg.ms
                   ELSE defaultRequestTimeout
        c0 == [id |-> id, timeout |-> timeout, conn |-> connected,
               st |-> "pending",
               result |-> EmptyObject, reason |-> NoReason,
               listener |-> FALSE, timer |-> FALSE]
        c1 == IF ~connected
              THEN reject(c0, [kind |-> "notConnected", id |-> Undefined, ms |-> 0])
              ELSE c0
        c2 == IF id = Undefined
              THEN reject(c1, [kind |-> "idUndefined", id |-> Undefined, ms |-> 0])
              ELSE c1
    IN  [c2 EXCEPT !.timer = TRUE, !.listener = TRUE]

\* a timer callback that rejects nothing
TimeoutCallbackWithoutReject(c) == [c EXCEPT !.timer = FALSE]

\* a timer callback that reports the default timeout, not the one given
TimeoutCallbackDefaultMs(c) ==
    reject([c EXCEPT !.timer = FALSE],
           [kind |-> "timeout", id |-> c.id, ms |-> defaultRequestTimeout])

\* the callback of _timeout
TimeoutCallback(c) ==
    reject([c EXCEPT !.timer = FALSE],
           [kind |-> "timeout", id |-> c.id, ms |-> c.timeout])

\* a listener that takes any message for its own
responseListenerAnyId(c, message) ==
    resolve([c EXCEPT !.listener = FALSE, !.timer = FALSE], message)

\* responseListener, called by emit('messageReceived', message)
responseListener(c, message) ==
    IF message.id # c.id THEN c
    ELSE resolve([c EXCEPT !.listener = FALSE, !.timer = FALSE], message)

(***************************************************************************)
(* The data handler.  h holds the part of the client's state the handler   *)
(* reads and writes.                                                       *)
(***************************************************************************)
\* an emit after which no timer of any call is left armed
EmitClearsEveryTimer(h, message) ==
    [h EXCEPT !.calls =
        [i \in DOMAIN h.calls |->
            [(IF h.calls[i].listener THEN responseListener(h.calls[i], message)
              ELSE h.calls[i]) EXCEPT !.timer = FALSE]]]

\* emit('messageReceived', message): every listener registered, in order
EmitMessageReceived(h, message) ==
    [h EXCEPT !.calls =
        [i \in DOMAIN h.calls |->
            IF h.calls[i].listener THEN responseListener(h.calls[i], message)
            ELSE h.calls[i]]]

\* the callbacks given to subscribe and unsubscribe; "t" is one that throws
Callbacks == {"f", "g", "t"}

Throws(callback) == callback = "t"

\* emit('eventReceived', message): the callbacks in order, up to one that throws
RECURSIVE EmitEventReceived(_, _, _)
EmitEventReceived(h, callbacks, message) ==
    IF callbacks = <<>> THEN h
    ELSE LET h1 == [h EXCEPT !.invoked =
                        Append(@, [cb |-> Head(callbacks), message |-> message])]
         IN  IF Throws(Head(callbacks)) THEN [h1 EXCEPT !.crashed = TRUE]
             ELSE EmitEventReceived(h1, Tail(callbacks), message)

\* an answer that writes the packet twice
respondToHeartbeatTwice(h, heartbeatPacket) ==
    [h EXCEPT !.receivedHeartbeat = TRUE,
              !.written = Append(Append(@, heartbeatPacket), heartbeatPacket),
              !.dispatched = Append(@, [what |-> "heartbeat",
                                        text |-> heartbeatPacket,
                                        message |-> EmptyObject])]

respondToHeartbeat(h, heartbeatPacket) ==
    [h EXCEPT !.receivedHeartbeat = TRUE,
              !.written = Append(@, heartbeatPacket),
              !.dispatched = Append(@, [what |-> "heartbeat",
                                        text |-> heartbeatPacket,
                                        message |-> EmptyObject])]

\* a body that hands every message to the subscribers, whatever its _type
HandleEveryMessageAsEvent(h, decodedResponse) ==
    IF StartsWithHb(decodedResponse)
    THEN respondToHeartbeat(h, decodedResponse)
    ELSE LET response == JSONParse(decodedResponse) IN
         IF response.kind = "SyntaxError" THEN h
         ELSE IF InThrows(response) THEN [h EXCEPT !.crashed = TRUE]
         ELSE IF ~isInstanceOfSocketAPIMessage(response) THEN h
         ELSE LET h1 == [h EXCEPT !.dispatched =
                            Append(@, [what |-> "message",
                                       text |-> decodedResponse,
                                       message |-> response])]
                  h2 == EmitMessageReceived(h1, response)
              IN  EmitEventReceived(h2, h2.subs, response)

\* the body of decodedResponses.forEach
HandleDecodedResponse(h, decodedResponse) ==
    IF StartsWithHb(decodedResponse)
    THEN respondToHeartbeat(h, decodedResponse)
    ELSE LET response == JSONParse(decodedResponse) IN
         IF response.kind = "SyntaxError" THEN h
         ELSE IF InThrows(response) THEN [h EXCEPT !.crashed = TRUE]
         ELSE IF ~isInstanceOfSocketAPIMessage(response) THEN h
         ELSE LET h1 == [h EXCEPT !.dispatched =
                            Append(@, [what |-> "message",
                                       text |-> decodedResponse,
                                       message |-> response])]
                  h2 == EmitMessageReceived(h1, response)
              IN  IF response.type = "event"
                  THEN EmitEventReceived(h2, h2.subs, response)
                  ELSE h2

\* a loop that takes the fragments from the last to the first
RECURSIVE ForEachFromTheEnd(_, _)
ForEachFromTheEnd(h, responses) ==
    IF responses = <<>> \/ h.crashed THEN h
    ELSE ForEachFromTheEnd(
             HandleDecodedResponse(h, responses[Len(responses)]),
             SubSeq(responses, 1, Len(responses) - 1))

\* forEach stops at the first exception, which nothing catches
RECURSIVE ForEachResponse(_, _)
ForEachResponse(h, responses) ==
    IF responses = <<>> \/ h.crashed THEN h
    ELSE ForEachResponse(HandleDecodedResponse(h, Head(responses)),
                         Tail(responses))

\* the 'data' listener start attaches
DataHandler(h, data) == ForEachResponse(h, DecodedResponses(data))

\* a socket with n data listeners runs the handler n times on each chunk
RECURSIVE DataHandlers(_, _, _)
DataHandlers(h, data, n) ==
    IF n = 0 \/ h.crashed THEN h
    ELSE DataHandlers(DataHandler(h, data), data, n - 1)

HState == [calls |-> calls, subs |-> subs, written |-> written,
           dispatched |-> dispatched, invoked |-> invoked,
           crashed |-> crashed, receivedHeartbeat |-> receivedHeartbeat]

(***************************************************************************)
(* AsyncSocket.  One record per instance: the fields of the class, the     *)
(* listeners registered on it, the promise of the connect attempt under    *)
(* way and the position of the reconnect loop.                             *)
(***************************************************************************)
defaultReconnectMaxRetries == 3

\* the options start is given; hasMax: reconnectMaxRetries is set
\* an options object: reconnect, reconnectMaxRetries (hasMax: it is given)
\* and requestTimeout (hasRequestTimeout: it is given)
NoOptions == [reconnect |-> FALSE, hasMax |-> FALSE, max |-> 0,
              hasRequestTimeout |-> FALSE, requestTimeout |-> 0]

OptionChoices ==
    {NoOptions,
     [NoOptions EXCEPT !.reconnect = TRUE],
     [NoOptions EXCEPT !.reconnect = TRUE, !.hasMax = TRUE, !.max = 1],
     [NoOptions EXCEPT !.reconnect = TRUE, !.hasMax = TRUE, !.max = -1]}

\* options that configure requestTimeout
RequestTimeoutChoices ==
    {[NoOptions EXCEPT !.hasRequestTimeout = TRUE, !.requestTimeout = 700]}

\* options?.reconnectMaxRetries ?? this.defaultReconnectMaxRetries
MaxRetries(o) == IF o.hasMax THEN o.max ELSE defaultReconnectMaxRetries

\* new AsyncSocket()
FreshSocket ==
    [net          |-> "fresh",  \* fresh, connecting, open, closed
     connected    |-> FALSE,    \* _connected
     reconnecting |-> FALSE,
     attempts     |-> 0,        \* reconnectionAttempts
     options      |-> NoOptions,
     closeH       |-> FALSE,    \* the 'close' listener of asyncConnect
     clientH      |-> FALSE,    \* the listeners start registers
     dataH        |-> 0,        \* 'data' listeners
     attempt      |-> "none",   \* who awaits the pending attempt: start, loop
     attemptH     |-> FALSE,    \* its connect and error listeners are on
     attemptTimer |-> FALSE,    \* its connect timeout is armed
     staleH       |-> FALSE,    \* listeners of timed out attempts are on
     loop         |-> "none",   \* the reconnect loop: none, sleep, attempt
     startRet     |-> "none",   \* what start returned: pending, true, false
     raised       |-> FALSE,    \* the loop threw 'Maximum retries reached'
     established  |-> FALSE,    \* the socket has emitted 'connect'
     loops        |-> 0,        \* calls of the loop that have not returned
     emitted      |-> <<>>]     \* what the loop begun last has emitted

\* an event the reconnect loop emits; attemptCount and maxAttempts are the
\* payload of 'reconnectFailed', and for the other two events the values
\* the same expressions have when the event is emitted
LoopEvent(k, name) ==
    [name |-> name, attemptCount |-> k.attempts,
     maxAttempts |-> IF k.options.hasMax THEN k.options.max
                     ELSE defaultReconnectMaxRetries]

\* this.emit(name) in the reconnect loop
Emit(k, name) == [k EXCEPT !.emitted = Append(@, LoopEvent(k, name))]

\* asyncConnectNoRetry up to this.connect(port, host); awaited by who.
\* connect() on a socket that is connecting or open is undefined behaviour
\* in Node: the model lets any connect outcome follow.
asyncConnectNoRetry(k, who) ==
    [k EXCEPT !.attempt = who, !.attemptH = TRUE, !.attemptTimer = TRUE,
              !.net = "connecting"]

canReconnect(k) ==
    IF k.connected THEN FALSE
    ELSE IF k.reconnecting THEN FALSE
    ELSE IF k.attempts >= MaxRetries(k.options) THEN FALSE
    ELSE TRUE

retryIndefinitely(k) == k.options.hasMax /\ k.options.max = -1

\* a test that lets one attempt too many through
withinMaxRetriesOffByOne(k) == k.attempts <= MaxRetries(k.options)

withinMaxRetries(k) == k.attempts < MaxRetries(k.options)

\* a loop that goes on whatever the attempt counter says
LoopTestUnbounded(k) ==
    IF ~k.connected
    THEN Emit([k EXCEPT !.attempts = @ + 1, !.loop = "sleep"], "reconnecting")
    ELSE [k EXCEPT !.reconnecting = FALSE, !.loop = "none", !.raised = TRUE,
                   !.loops = @ - 1]

\* the test of the while loop and what follows it: the head of the next
\* iteration up to the sleep, or the end of the loop
LoopTest(k) ==
    IF (withinMaxRetries(k) \/ retryIndefinitely(k)) /\ ~k.connected
    THEN Emit([k EXCEPT !.attempts = @ + 1, !.loop = "sleep"], "reconnecting")
    ELSE [k EXCEPT !.reconnecting = FALSE, !.loop = "none", !.raised = TRUE,
                   !.loops = @ - 1]

\* a loop that begins whether or not one is under way
initiateWhileReconnecting(k) ==
    IF k.connected THEN k
    ELSE LoopTest([k EXCEPT !.reconnecting = TRUE, !.loops = @ + 1,
                            !.emitted = <<>>])

\* initiateReconnectionAttempts up to its first await
initiateReconnectionAttempts(k) ==
    IF k.connected \/ k.reconnecting THEN k
    ELSE LoopTest([k EXCEPT !.reconnecting = TRUE, !.loops = @ + 1,
                            !.emitted = <<>>])

\* initiateReconnectionAttempts throws before its first await
InitiateThrows(k) == k.connected \/ k.reconnecting

\* asyncConnect was never called: this.port and this.host are undefined
NeverConnected(k) == k.startRet = "none"

\* flatlined(): _connected is cleared first; the call to
\* initiateReconnectionAttempts is neither awaited nor caught
flatlined(k) ==
    LET k1 == [k EXCEPT !.connected = FALSE]
    IN  IF NeverConnected(k1) THEN k1
        ELSE initiateReconnectionAttempts(k1)

\* the 'close' listener asyncConnect registers when options.reconnect is true
CloseListener(k) ==
    LET k1 == [k EXCEPT !.connected = FALSE]
    IN  IF ~canReconnect(k1) THEN k1 ELSE initiateReconnectionAttempts(k1)

\* the socket emits 'close'
EmitClose(k) ==
    LET k1 == [k EXCEPT !.net = "closed"]
    IN  IF k1.closeH THEN CloseListener(k1) ELSE k1

(***************************************************************************)
(* The continuations of a connect attempt.  w holds the sockets and the    *)
(* heartbeat intervals of the client.                                      *)
(***************************************************************************)
startHeartbeatCheckTimer(w) ==
    [w EXCEPT !.hbStale = IF w.hbLatest THEN @ + 1 ELSE @,
              !.hbLatest = TRUE]

\* start after await asyncConnect resolved: the timer, the 'data' listener
\* on this.socket, return true
StartResolved(w, s) ==
    LET w1 == startHeartbeatCheckTimer(w)
    IN  [w1 EXCEPT !.sock[w.cur].dataH = @ + 1,
                   !.sock[s].startRet = "true"]

\* start after await asyncConnect rejected: return false
StartRejected(w, s) == [w EXCEPT !.sock[s].startRet = "false"]

\* a loop that returns without setting reconnectionAttempts to 0
LoopResolvedKeepsCount(w, s) ==
    LET w1 == [w EXCEPT !.sock[s] =
                   Emit([@ EXCEPT !.reconnecting = FALSE,
                                  !.connected = TRUE,
                                  !.loop = "none",
                                  !.loops = @ - 1], "reconnected")]
    IN  IF w1.sock[s].clientH THEN startHeartbeatCheckTimer(w1) ELSE w1

\* the loop after await asyncConnectNoRetry resolved
LoopResolved(w, s) ==
    LET w1 == [w EXCEPT !.sock[s] =
                   Emit([@ EXCEPT !.attempts = 0,
                                  !.reconnecting = FALSE,
                                  !.connected = TRUE,
                                  !.loop = "none",
                                  !.loops = @ - 1], "reconnected")]
    IN  IF w1.sock[s].clientH THEN startHeartbeatCheckTimer(w1) ELSE w1

\* a catch block that emits nothing
LoopRejectedSilently(w, s) == [w EXCEPT !.sock[s] = LoopTest(@)]

\* the loop after await asyncConnectNoRetry rejected: the catch block
LoopRejected(w, s) ==
    [w EXCEPT !.sock[s] = LoopTest(Emit(@, "reconnectFailed"))]

\* the promise of the attempt of socket s is settled
AttemptSettled(w, s, ok) ==
    LET who == w.sock[s].attempt
        w1  == [w EXCEPT !.sock[s].attempt = "none",
                         !.sock[s].attemptH = FALSE]
    IN  CASE who = "start" /\ ok  -> StartResolved(w1, s)
          [] who = "start" /\ ~ok -> StartRejected(w1, s)
          [] who = "loop" /\ ok   -> LoopResolved(w1, s)
          [] who = "loop" /\ ~ok  -> LoopRejected(w1, s)
          [] OTHER                -> w1

\* connectHandler of every attempt whose listeners are on
ConnectHandlers(w, s) ==
    LET k  == w.sock[s]
        on == k.staleH \/ (k.attempt # "none" /\ k.attemptH)
        w1 == [w EXCEPT !.sock[s].staleH = FALSE,
                        !.sock[s].connected = IF on THEN TRUE ELSE @]
    IN  IF k.attempt # "none" /\ k.attemptH
        THEN AttemptSettled([w1 EXCEPT !.sock[s].attemptTimer = FALSE], s, TRUE)
        ELSE w1

\* errorHandler of every attempt whose listeners are on
ErrorHandlers(w, s) ==
    LET k  == w.sock[s]
        on == k.staleH \/ (k.attempt # "none" /\ k.attemptH)
        w1 == [w EXCEPT !.sock[s].staleH = FALSE,
                        !.sock[s].connected = IF on THEN FALSE ELSE @]
    IN  IF k.attempt # "none" /\ k.attemptH
        THEN AttemptSettled([w1 EXCEPT !.sock[s].attemptTimer = FALSE], s, FALSE)
        ELSE w1

\* timeoutHandler of the attempt under way
timeoutHandler(w, s) ==
    LET w1 == [w EXCEPT !.sock[s].attemptTimer = FALSE]
    IN  IF w.sock[s].connected THEN w1
        ELSE LET settled == AttemptSettled(w1, s, FALSE)
             IN  [settled EXCEPT !.sock[s].staleH = @ \/ w.sock[s].attemptH]

World == [sock |-> sock, hbLatest |-> hbLatest, hbStale |-> hbStale, cur |-> cur]

(***************************************************************************)
(* The client's start.                                                     *)
(***************************************************************************)
isConnected == cur # 0 /\ sock[cur].connected

\* asyncConnect: the fields, the 'close' listener when options.reconnect is
\* true, the first attempt
asyncConnect(k, o) ==
    asyncConnectNoRetry([k EXCEPT !.options = o, !.closeH = o.reconnect],
                        "start")

\* start when not connected, up to await this.socket.asyncConnect: the new
\* AsyncSocket s, its listeners, the first attempt
StartBody(w, s, o) ==
    [w EXCEPT !.cur = s,
              !.sock[s] = asyncConnect([FreshSocket EXCEPT !.clientH = TRUE,
                                                           !.startRet = "pending"],
                                       o)]

\* socket.removeAllListeners() and socket.destroy()
TearDown(k) ==
    [k EXCEPT !.closeH = FALSE, !.clientH = FALSE, !.dataH = 0,
              !.attemptH = FALSE, !.staleH = FALSE, !.net = "closed"]

\* the callback of the heartbeat interval when no heartbeat was received
HeartbeatRestart(w, s, o) ==
    LET w1 == [w EXCEPT !.hbLatest = FALSE]
        w2 == IF w.cur = 0 THEN w1
              ELSE [w1 EXCEPT !.sock[w.cur] = TearDown(@)]
    IN  StartBody(w2, s, o)

(***************************************************************************)
(* The frames the server sends.                                            *)
(***************************************************************************)
Frames ==
    {<<"{", "s:okay", "i:a", "t:response", "v", "}">>,
     <<"{", "s:error", "i:b", "t:response", "e", "}">>,
     <<"{", "s:okay", "i:a", "t:event", "v", "}">>,
     <<"{", "s:okay", "t:response", "v", "}">>,
     <<"h", "b", "7">>}

(***************************************************************************)
(* Init and the actions.                                                   *)
(***************************************************************************)
Init ==
    /\ sock = [s \in Sockets |-> FreshSocket]
    /\ nSockets = 0
    /\ cur = 0
    /\ options = NoOptions
    /\ hbLatest = FALSE
    /\ hbStale = 0
    /\ receivedHeartbeat = FALSE
    /\ calls = <<>>
    /\ subs = <<>>
    /\ written = <<>>
    /\ dispatched = <<>>
    /\ invoked = <<>>
    /\ crashed = FALSE
    /\ wire = [s \in Sockets |-> <<>>]
    /\ delivered = [s \in Sockets |-> <<>>]
    /\ nSent = 0
    /\ refused = 0
    /\ checks = <<>>
    /\ wanted = [callback \in Callbacks |-> 0]
    /\ chunks = 0

clientVars == <<calls, subs, written, dispatched, invoked, crashed,
                receivedHeartbeat>>

envVars == <<wire, delivered, nSent>>

histVars == <<refused, checks, wanted, chunks>>

SetWorld(w) ==
    /\ w.hbStale <= MaxStale
    /\ sock' = w.sock
    /\ hbLatest' = w.hbLatest
    /\ hbStale' = w.hbStale
    /\ cur' = w.cur

\* start(ipAddress, port, o) called while isConnected() is false
Start(o) ==
    /\ ~crashed
    /\ ~isConnected
    /\ nSockets < MaxSockets
    /\ SetWorld(StartBody(World, nSockets + 1, o))
    /\ nSockets' = nSockets + 1
    /\ options' = o
    /\ UNCHANGED <<clientVars, envVars, histVars>>

\* what a call of start reads and writes before its first await
ClientState == [w |-> World, options |-> options, nSockets |-> nSockets]

\* a start that does not look at isConnected()
StartCallUnguarded(c, o) ==
    [w        |-> StartBody(c.w, c.nSockets + 1, o),
     options  |-> o,
     nSockets |-> c.nSockets + 1]

\* start(ipAddress, port, o) up to its first await or its return
StartCall(c, o) ==
    IF c.w.cur # 0 /\ c.w.sock[c.w.cur].connected THEN c
    ELSE [w        |-> StartBody(c.w, c.nSockets + 1, o),
          options  |-> o,
          nSockets |-> c.nSockets + 1]

\* start(ipAddress, port, o) called while isConnected() is true: it
\* returns false
StartRefused(o) ==
    /\ ~crashed
    /\ isConnected
    /\ refused < MaxRefused
    /\ LET c == StartCall(ClientState, o)
       IN  /\ SetWorld(c.w)
           /\ options' = c.options
           /\ nSockets' = c.nSockets
    /\ refused' = refused + 1
    /\ UNCHANGED <<clientVars, envVars, checks, wanted, chunks>>

\* flatlined() is called on socket s.  When initiateReconnectionAttempts
\* throws, the promise it returns is rejected and nobody handles it: the
\* runtime either reports the rejection or ends the process.
Flatlined(s) ==
    /\ ~crashed
    /\ SetWorld([World EXCEPT !.sock[s] = flatlined(@)])
    /\ \E fatal \in BOOLEAN :
           crashed' = (/\ ~NeverConnected(sock[s])
                       /\ InitiateThrows([sock[s] EXCEPT !.connected = FALSE])
                       /\ fatal)
    /\ UNCHANGED <<nSockets, options, calls, subs, written, dispatched,
                   invoked, receivedHeartbeat, envVars, histVars>>

\* socket s emits 'connect'
NetConnect(s) ==
    /\ ~crashed
    /\ sock[s].net = "connecting"
    /\ SetWorld(ConnectHandlers([World EXCEPT !.sock[s].net = "open",
                                               !.sock[s].established = TRUE],
                                 s))
    /\ UNCHANGED <<nSockets, options, clientVars, envVars, histVars>>

\* the connect of socket s fails: 'error', the continuations of the
\* rejected attempt, then 'close'
NetError(s) ==
    /\ ~crashed
    /\ sock[s].net = "connecting"
    /\ LET w == ErrorHandlers(World, s)
       IN  SetWorld([w EXCEPT !.sock[s] = EmitClose(@)])
    /\ wire' = [wire EXCEPT ![s] = <<>>]
    /\ UNCHANGED <<nSockets, options, clientVars, delivered, nSent, histVars>>

\* the peer closes the connection of socket s: 'close'
NetClose(s) ==
    /\ ~crashed
    /\ sock[s].net = "open"
    /\ SetWorld([World EXCEPT !.sock[s] = EmitClose(@)])
    /\ wire' = [wire EXCEPT ![s] = <<>>]
    /\ UNCHANGED <<nSockets, options, clientVars, delivered, nSent, histVars>>

\* the connect timeout of the attempt of socket s fires
ConnectTimeout(s) ==
    /\ ~crashed
    /\ sock[s].attempt # "none"
    /\ sock[s].attemptTimer
    /\ SetWorld(timeoutHandler(World, s))
    /\ UNCHANGED <<nSockets, options, clientVars, envVars, histVars>>

\* the sleep of the reconnect loop of socket s ends: the connect attempt
SleepDone(s) ==
    /\ ~crashed
    /\ sock[s].loop = "sleep"
    /\ SetWorld([World EXCEPT !.sock[s] =
                    asyncConnectNoRetry([@ EXCEPT !.loop = "attempt"], "loop")])
    /\ UNCHANGED <<nSockets, options, clientVars, envVars, histVars>>

\* the heartbeat fragments answered so far
IsHeartbeat(d) == d.what = "heartbeat"

Answered == Len(SelectSeq(dispatched, IsHeartbeat))

\* a heartbeat interval fires: the one this.heartbeatInterval names (latest)
\* or an older one
HeartbeatCheck(latest) ==
    /\ ~crashed
    /\ IF latest THEN hbLatest ELSE hbStale > 0
    /\ IF receivedHeartbeat
       THEN UNCHANGED <<sock, nSockets, cur, hbLatest, hbStale, wire>>
       ELSE /\ nSockets < MaxSockets
            /\ SetWorld(HeartbeatRestart(World, nSockets + 1, options))
            /\ nSockets' = nSockets + 1
            /\ wire' = IF cur = 0 THEN wire ELSE [wire EXCEPT ![cur] = <<>>]
    /\ Len(checks) < MaxChecks
    /\ checks' = Append(checks, [answered  |-> Answered,
                                 connected |-> isConnected,
                                 restarted |-> ~receivedHeartbeat])
    /\ UNCHANGED <<options, clientVars, delivered, nSent, refused, wanted,
                   chunks>>

\* the server sends a frame and its sentinel over the connection of socket s
ServerSend(s, frame) ==
    /\ ~crashed
    /\ sock[s].net = "open"
    /\ nSent < MaxFrames
    /\ wire' = [wire EXCEPT ![s] = @ \o frame \o Sentinel]
    /\ nSent' = nSent + 1
    /\ UNCHANGED <<sock, nSockets, cur, options, hbLatest, hbStale,
                   clientVars, delivered, histVars>>

\* socket s emits 'data' with the first n bytes received
Data(s, n) ==
    /\ ~crashed
    /\ sock[s].net = "open"
    /\ sock[s].dataH > 0
    /\ n \in 1..Len(wire[s])
    /\ LET data == SubSeq(wire[s], 1, n)
           h    == DataHandlers(HState, data, sock[s].dataH)
       IN  /\ calls' = h.calls
           /\ written' = h.written
           /\ dispatched' = h.dispatched
           /\ invoked' = h.invoked
           /\ crashed' = h.crashed
           /\ receivedHeartbeat' = h.receivedHeartbeat
           /\ delivered' = [delivered EXCEPT ![s] = @ \o data]
    /\ wire' = [wire EXCEPT ![s] = SubSeq(@, n + 1, Len(@))]
    /\ chunks' = chunks + 1
    /\ UNCHANGED <<sock, nSockets, cur, options, hbLatest, hbStale, subs, nSent,
                   refused, checks, wanted>>

\* sendRequest(request, timeout)
SendRequest(id, timeoutArg) ==
    /\ ~crashed
    /\ Len(calls) < MaxCalls
    /\ calls' = Append(calls, SendRequestExecutor(isConnected, id, timeoutArg))
    /\ written' = Append(written, Stringify(id))
    /\ UNCHANGED <<sock, nSockets, cur, options, hbLatest, hbStale, subs,
                   dispatched, invoked, crashed, receivedHeartbeat, envVars,
                   histVars>>

\* the timer of call i fires
RequestTimeout(i) ==
    /\ ~crashed
    /\ i \in DOMAIN calls
    /\ calls[i].timer
    /\ calls' = [calls EXCEPT ![i] = TimeoutCallback(@)]
    /\ UNCHANGED <<sock, nSockets, cur, options, hbLatest, hbStale, subs,
                   written, dispatched, invoked, crashed, receivedHeartbeat,
                   envVars, histVars>>

\* an emitter that registers a listener once only
onDeduplicated(listeners, listener) ==
    IF \E i \in DOMAIN listeners : listeners[i] = listener THEN listeners
    ELSE Append(listeners, listener)

\* emitter.on(name, listener): added at the end, the same one again too
on(listeners, listener) == Append(listeners, listener)

\* emitter.off(name, listener): the instance added last is removed, if any
off(listeners, listener) ==
    LET at == {i \in DOMAIN listeners : listeners[i] = listener}
    IN  IF at = {} THEN listeners
        ELSE LET last == CHOOSE i \in at : \A j \in at : j <= i
             IN  SubSeq(listeners, 1, last - 1)
                     \o SubSeq(listeners, last + 1, Len(listeners))

\* subscribe(callback)
Subscribe(callback) ==
    /\ ~crashed
    /\ Len(subs) < MaxSubs
    /\ subs' = on(subs, callback)
    /\ wanted' = [wanted EXCEPT ![callback] = @ + 1]
    /\ UNCHANGED <<sock, nSockets, cur, options, hbLatest, hbStale, calls,
                   written, dispatched, invoked, crashed, receivedHeartbeat,
                   envVars, refused, checks, chunks>>

\* unsubscribe(callback)
Unsubscribe(callback) ==
    /\ ~crashed
    /\ subs' = off(subs, callback)
    /\ wanted' = [wanted EXCEPT ![callback] = IF @ > 0 THEN @ - 1 ELSE 0]
    /\ UNCHANGED <<sock, nSockets, cur, options, hbLatest, hbStale, calls,
                   written, dispatched, invoked, crashed, receivedHeartbeat,
                   envVars, refused, checks, chunks>>

(***************************************************************************)
(* The client over any number of sockets: start called again while not     *)
(* connected, the connect attempts, the reconnect loops and the heartbeat  *)
(* check, which replaces the socket.                                       *)
(***************************************************************************)
ClientNext ==
    \/ \E o \in OptionChoices : Start(o)
    \/ \E s \in Sockets : NetConnect(s)
    \/ \E s \in Sockets : NetError(s)
    \/ \E s \in Sockets : NetClose(s)
    \/ \E s \in Sockets : ConnectTimeout(s)
    \/ \E s \in Sockets : SleepDone(s)
    \/ \E latest \in BOOLEAN : HeartbeatCheck(latest)

SpecClient == Init /\ [][ClientNext]_vars

(***************************************************************************)
(* The connection manager: one AsyncSocket from start on, its connect      *)
(* attempts, the closes of its connection and its reconnect loop.          *)
(***************************************************************************)
StartOnce(o) == nSockets = 0 /\ Start(o)

ConnNext ==
    \/ \E o \in OptionChoices : StartOnce(o)
    \/ \E s \in Sockets : NetConnect(s)
    \/ \E s \in Sockets : NetError(s)
    \/ \E s \in Sockets : NetClose(s)
    \/ \E s \in Sockets : ConnectTimeout(s)
    \/ \E s \in Sockets : SleepDone(s)

SpecConn == Init /\ [][ConnNext]_vars

(***************************************************************************)
(* The frame decoder: one connection, the server's frames handed to the    *)
(* data handler in chunks cut anywhere.                                    *)
(***************************************************************************)
DecoderNext ==
    \/ \E o \in OptionChoices : StartOnce(o)
    \/ \E s \in Sockets : NetConnect(s)
    \/ \E s \in Sockets, frame \in Frames : ServerSend(s, frame)
    \/ \E s \in Sockets : \E n \in 1..Len(wire[s]) : Data(s, n)

SpecDecoder == Init /\ [][DecoderNext]_vars

\* the client's state before any byte arrived
NoInput == [calls |-> <<>>, subs |-> <<>>, written |-> <<>>,
            dispatched |-> <<>>, invoked |-> <<>>, crashed |-> FALSE,
            receivedHeartbeat |-> FALSE]

\* the byte stream ends with the sentinel of a frame
WholeFrames(bytes) ==
    /\ Len(bytes) >= 2
    /\ SubSeq(bytes, Len(bytes) - 1, Len(bytes)) = Sentinel

\* C1: fragmentation-invariance of the frame decoder.  Whenever the bytes
\* handed over so far are a concatenation of whole frames, what was
\* dispatched is what the same bytes dispatch when they arrive as one chunk,
\* however they were cut: a frame split across two chunks is dispatched once.
C1_FragmentationInvariance ==
    WholeFrames(delivered[1]) =>
        dispatched = DataHandler(NoInput, delivered[1]).dispatched

(***************************************************************************)
(* The request/response correlator: one connection, which the peer may     *)
(* close, sendRequest calls, their timers, and the server's responses,     *)
(* handed to the data handler frame by frame.                              *)
(***************************************************************************)
DataWhole(s) == Data(s, Len(wire[s]))

\* the responses the server sends
Responses ==
    {f \in Frames : /\ ~StartsWithHb(f)
                    /\ JSONParse(f).type = "response"
                    /\ JSONParse(f).id # Undefined}

\* the requests made: their ids and timeout arguments
Requests ==
    {<<"a", [given |-> FALSE, ms |-> 0]>>,
     <<"b", [given |-> TRUE, ms |-> 500]>>,
     <<Undefined, [given |-> FALSE, ms |-> 0]>>}

RequestsNext ==
    \/ \E o \in {c \in OptionChoices : ~c.hasMax} : StartOnce(o)
    \/ \E s \in Sockets : NetConnect(s)
    \/ \E s \in Sockets : NetClose(s)
    \/ \E r \in Requests : SendRequest(r[1], r[2])
    \/ \E i \in 1..MaxCalls : RequestTimeout(i)
    \/ \E s \in Sockets, frame \in Responses : ServerSend(s, frame)
    \/ \E s \in Sockets : DataWhole(s)

SpecRequests == Init /\ [][RequestsNext]_vars

(***************************************************************************)
(* Claims about the correlator, checked under SpecRequests.                *)
(***************************************************************************)
\* the messages the data handler emitted in this step
NewMessages ==
    {dispatched'[j].message : j \in (Len(dispatched) + 1)..Len(dispatched')}

Pending == {i \in DOMAIN calls : calls[i].st = "pending"}

ResolvedNow == {i \in Pending : calls'[i].st = "resolved"}

PendingIdsDistinct ==
    \A i, j \in Pending : i # j => calls[i].id # calls[j].id

\* C2: with the outstanding calls under pairwise distinct ids, a call is
\* resolved only by a message decoded in that step whose id is the call's
\* request.id, and a decoded message resolves at most one call.
C2_ResolvedByOwnIdOnly ==
    [][ /\ \A i \in ResolvedNow :
              /\ calls'[i].result \in NewMessages
              /\ calls'[i].result.id = calls[i].id
        /\ PendingIdsDistinct =>
              \A m \in NewMessages :
                  Cardinality({i \in ResolvedNow : calls'[i].result = m}) <= 1
      ]_vars

\* two calls under distinct ids were outstanding at once, the later one is
\* resolved and the earlier one still waits
C2_Witness ==
    \E i, j \in DOMAIN calls :
        /\ j < i
        /\ calls[i].id # calls[j].id
        /\ calls[j].st = "pending"
        /\ calls[i].st = "resolved"

TimeoutReason(c) == [kind |-> "timeout", id |-> c.id, ms |-> c.timeout]

\* C3 as claimed: a call made while connected is rejected only by its timer,
\* with the timeout failure.
C3_ConnectedCallRejectedOnlyByTimer ==
    \A i \in DOMAIN calls :
        (calls[i].conn /\ calls[i].st = "rejected") =>
            calls[i].reason = TimeoutReason(calls[i])

\* C3 amended: a call made while connected with request.id defined waits
\* with its timer armed; it is rejected only when that timer fires, with a
\* failure that names the request id and the timeout of the call; and when
\* the timer is gone the call is rejected so, or was resolved by a message
\* with its id.
C3_TimerRejectsWithIdAndTimeout ==
    [][ /\ \A i \in DOMAIN calls' \ DOMAIN calls :
              (calls'[i].conn /\ calls'[i].id # Undefined) =>
                  /\ calls'[i].st = "pending"
                  /\ calls'[i].timer
                  /\ calls'[i].timeout \in {defaultRequestTimeout} \cup
                         {t.ms : t \in {a \in TimeoutArgs : a.given}}
        /\ \A i \in DOMAIN calls :
              (calls[i].conn /\ calls[i].id # Undefined
                    /\ calls[i].st = "pending") =>
                  /\ calls[i].timer
                  /\ calls'[i].st = "rejected" =>
                        calls'[i].reason = TimeoutReason(calls[i])
                  /\ ~calls'[i].timer =>
                        \/ /\ calls'[i].st = "rejected"
                           /\ calls'[i].reason = TimeoutReason(calls[i])
                        \/ /\ calls'[i].st = "resolved"
                           /\ calls'[i].result.id = calls[i].id
      ]_vars

\* a call made while connected, under a defined id and with a timeout of
\* its own, was rejected by its timer
C3_Witness ==
    \E i \in DOMAIN calls :
        /\ calls[i].conn
        /\ calls[i].id # Undefined
        /\ calls[i].timeout # defaultRequestTimeout
        /\ calls[i].st = "rejected"
        /\ calls[i].reason = TimeoutReason(calls[i])

\* C4: a call settled by a matching response or by its timeout leaves
\* neither its messageReceived listener nor its timer registered.
C4_SettledCallLeavesNothing ==
    \A i \in DOMAIN calls :
        (\/ calls[i].st = "resolved"
         \/ calls[i].st = "rejected" /\ calls[i].reason.kind = "timeout") =>
            (~calls[i].listener /\ ~calls[i].timer)

\* C5: a call has at most one outcome, that of whichever of the response
\* and the timer came first: once resolved or rejected, its state, its
\* message and its failure never change.
C5_OneOutcome ==
    [][ \A i \in DOMAIN calls :
            calls[i].st # "pending" =>
                /\ calls'[i].st = calls[i].st
                /\ calls'[i].result = calls[i].result
                /\ calls'[i].reason = calls[i].reason
      ]_vars

\* a call was rejected by its timer and the matching response came after:
\* the listener ran (it is gone) and the call is still rejected
C5_Witness ==
    \E i \in DOMAIN calls :
        /\ calls[i].st = "rejected"
        /\ calls[i].reason.kind = "timeout"
        /\ ~calls[i].listener

\* C6: a call made while isConnected() is false, or with request.id
\* undefined, is rejected at the call, for that reason and not by the
\* timeout, and is never resolved.
C6_FailsImmediately ==
    \A i \in DOMAIN calls :
        (~calls[i].conn \/ calls[i].id = Undefined) =>
            /\ calls[i].st = "rejected"
            /\ calls[i].reason.kind =
                   IF ~calls[i].conn THEN "notConnected" ELSE "idUndefined"

\* a call made while not connected under a defined id, whose response came
\* later: the listener ran (it is gone)
C6_Witness ==
    \E i \in DOMAIN calls :
        /\ ~calls[i].conn
        /\ calls[i].id # Undefined
        /\ ~calls[i].listener

(***************************************************************************)
(* The connection state and the reconnect loop, under SpecConn.            *)
(***************************************************************************)

\* C7: isConnected() is true only while the socket is usable for writes:
\* once the socket of the client has emitted 'close', isConnected() is
\* false, whatever the options of start were.
C7_NotConnectedAfterClose ==
    isConnected => sock[cur].net # "closed"

\* socket s reconnects, at most a bounded number of times
Bounded(s) == sock[s].options.reconnect /\ ~retryIndefinitely(sock[s])

\* the connect attempt of the loop of socket s fails in this step, on the
\* error of the transport or on the connect timeout
LoopAttemptFails(s) ==
    /\ sock[s].attempt = "loop"
    /\ NetError(s) \/ (ConnectTimeout(s) /\ ~sock[s].connected)

\* the loop of socket s gave up after the attempts its options allow
Exhausted(s) ==
    /\ sock[s].raised
    /\ sock[s].attempts = MaxRetries(sock[s].options)

\* C8: with reconnect enabled and reconnectMaxRetries = N (3 when not
\* given), the loop a close starts goes on to the next attempt while fewer
\* than N attempts have failed; when the attempt N fails the socket is left
\* not connected and not reconnecting and the loop raises 'Maximum retries
\* reached'; from then on the socket makes no connect attempt.
C8_BoundedRetries ==
    [][ \A s \in Sockets : Bounded(s) =>
            /\ (/\ LoopAttemptFails(s)
                /\ sock[s].attempts = MaxRetries(sock[s].options)) =>
                    /\ ~sock'[s].connected
                    /\ ~sock'[s].reconnecting
                    /\ sock'[s].raised
                    /\ sock'[s].loop = "none"
                    /\ sock'[s].attempt = "none"
            /\ (/\ LoopAttemptFails(s)
                /\ sock[s].attempts < MaxRetries(sock[s].options)) =>
                    /\ ~sock'[s].raised
                    /\ sock'[s].reconnecting
                    /\ sock'[s].loop = "sleep"
                    /\ sock'[s].attempts = sock[s].attempts + 1
            /\ sock[s].attempts <= MaxRetries(sock[s].options)
            /\ Exhausted(s) =>
                    /\ Exhausted(s)'
                    /\ sock'[s].loop = "none"
                    /\ sock'[s].attempt = "none"
                    /\ sock'[s].net = "connecting" => sock[s].net = "connecting"
      ]_vars

\* a socket started without reconnectMaxRetries had a connection, lost it,
\* failed three attempts and gave up
C8_Witness ==
    \E s \in Sockets :
        /\ sock[s].options.reconnect
        /\ ~sock[s].options.hasMax
        /\ sock[s].startRet = "true"
        /\ Exhausted(s)
        /\ sock[s].attempts = defaultReconnectMaxRetries
        /\ ~sock[s].connected
        /\ ~sock[s].reconnecting
        /\ sock[s].net = "closed"

\* C9: with reconnect enabled and reconnectMaxRetries = -1, the close of
\* an established connection starts the reconnect loop, which goes on
\* until an attempt succeeds: a socket that start connected and whose
\* connection is closed is reconnecting.
C9_ClosedMeansReconnecting ==
    \A s \in Sockets :
        (/\ sock[s].options.reconnect
         /\ retryIndefinitely(sock[s])
         /\ sock[s].startRet = "true"
         /\ sock[s].net = "closed") => sock[s].reconnecting

\* C10: the reconnect loop is entered only after a connection that had
\* succeeded is closed: a socket whose connect attempts all failed is not
\* reconnecting.
C10_ReconnectsOnlyAfterConnect ==
    \A s \in Sockets : sock[s].reconnecting => sock[s].established

(***************************************************************************)
(* The inbound path: one connection, over which the server sends frames    *)
(* that are messages, frames that are not, and heartbeats, each handed to  *)
(* the data handler in chunks of whole frames.                             *)
(***************************************************************************)
\* frames that are no SocketAPIMessage: text that is not JSON, JSON that is
\* not an object, an object with a wrong status, an object with members
\* missing
MalformedFrames ==
    {<<"x">>,
     <<"null">>,
     <<"7">>,
     <<"{", "s:bad", "i:a", "t:response", "v", "}">>,
     <<"{", "i:a", "v", "}">>}

InboundFrames ==
    MalformedFrames \cup {<<"{", "s:okay", "i:a", "t:response", "v", "}">>,
                          <<"h", "b", "7">>}

InboundNext ==
    \/ StartOnce(NoOptions)
    \/ \E s \in Sockets : NetConnect(s)
    \/ \E s \in Sockets, frame \in InboundFrames : ServerSend(s, frame)
    \/ \E s \in Sockets : DataWhole(s)

SpecInbound == Init /\ [][InboundNext]_vars

\* the fragments the handler is to dispatch: heartbeats and messages
Dispatchable(res) ==
    \/ StartsWithHb(res)
    \/ LET obj == JSONParse(res)
       IN  obj.kind = "object" /\ isInstanceOfSocketAPIMessage(obj)

\* C11: no inbound fragment crashes the decoder.  The data handler leaves
\* no exception uncaught, whatever the fragment, and once every chunk has
\* been handed over, each heartbeat and each valid message among the
\* fragments received was dispatched, also those that came after a fragment
\* that is no valid message.
C11_MalformedFragmentsAreDropped ==
    /\ ~crashed
    /\ Len(dispatched) =
           Len(SelectSeq(DecodedResponses(delivered[1]), Dispatchable))

\* the chunk handed to the 'data' listeners of socket 1 in this step
NewChunk == SubSeq(delivered'[1], Len(delivered[1]) + 1, Len(delivered'[1]))

EventFrames ==
    {<<"{", "s:okay", "i:a", "t:event", "v", "}">>,
     <<"{", "s:okay", "i:b", "t:event", "v", "}">>}

SubscribersNext ==
    \/ StartOnce(NoOptions)
    \/ \E s \in Sockets : NetConnect(s)
    \/ \E callback \in Callbacks : Subscribe(callback)
    \/ \E callback \in Callbacks : Unsubscribe(callback)
    \/ \E s \in Sockets, frame \in EventFrames : ServerSend(s, frame)
    \/ \E s \in Sockets : DataWhole(s)

SpecSubscribers == Init /\ [][SubscribersNext]_vars

IsEvent(d) == d.what = "message" /\ d.message.type = "event"

\* the events the data handler dispatched in this step
NewEvents ==
    SelectSeq(SubSeq(dispatched', Len(dispatched) + 1, Len(dispatched')),
              IsEvent)

\* the subscriber invocations made in this step
NewInvocations == SubSeq(invoked', Len(invoked) + 1, Len(invoked'))

\* C12: when an event is dispatched to the callbacks c1..cn, every one of
\* them is invoked with it, also those registered after one that throws:
\* each event dispatched in a step adds one invocation per callback.
C12_EveryCallbackInvoked ==
    [][ Len(NewInvocations) = Len(NewEvents) * Len(subs) ]_vars

\* how many of the invocations made in this step are of callback
InvokedNow(callback) ==
    Cardinality({i \in DOMAIN NewInvocations : NewInvocations[i].cb = callback})

HeartbeatFrames == {<<"h", "b", "7">>, <<"h", "b", "7", "7">>}

HeartbeatNext ==
    \/ \E o \in OptionChoices : StartOnce(o)
    \/ \E s \in Sockets : NetConnect(s)
    \/ \E s \in Sockets, frame \in HeartbeatFrames : ServerSend(s, frame)
    \/ \E s \in Sockets : DataWhole(s)
    \/ HeartbeatCheck(TRUE)

SpecHeartbeat == Init /\ [][HeartbeatNext]_vars

\* the heartbeats that had been answered at the check before check i
AnsweredBefore(i) == IF i = 1 THEN 0 ELSE checks[i - 1].answered

\* C13: while connected, every expiry of the check interval during which
\* no heartbeat was received since the previous check destroys the socket
\* and calls start again, also when a heartbeat had been received in an
\* earlier interval.
C13_SilentIntervalRestarts ==
    \A i \in DOMAIN checks :
        (checks[i].connected /\ checks[i].answered = AnsweredBefore(i)) =>
            checks[i].restarted

(***************************************************************************)
(* start called while connected: the connection manager of SpecConn and    *)
(* calls of start made while isConnected() is true.                        *)
(***************************************************************************)
RefusedNext ==
    \/ ConnNext
    \/ \E o \in OptionChoices : StartRefused(o)

SpecRefused == Init /\ [][RefusedNext]_vars

\* C17: start called while isConnected() is true returns false and
\* changes nothing: the socket of the client, the sockets and their
\* listeners, the heartbeat timers and the stored options are as they were,
\* and so is everything else the client holds.
C17_RefusedStartChangesNothing ==
    [][ refused' # refused =>
            /\ isConnected
            /\ UNCHANGED <<sock, nSockets, cur, options, hbLatest, hbStale,
                           clientVars, envVars>>
      ]_vars

\* start was called with options of its own on a client that is connected
\* with its data handler attached and its heartbeat timer armed
C17_Witness ==
    /\ refused > 0
    /\ isConnected
    /\ sock[cur].dataH = 1
    /\ hbLatest

(***************************************************************************)
(* What start returns, under SpecClient.                                   *)
(***************************************************************************)
\* the call of start that created socket s returns true in this step
ReturnsTrue(s) == sock[s].startRet = "pending" /\ sock'[s].startRet = "true"

\* the call of start that created socket s returns false in this step
ReturnsFalse(s) == sock[s].startRet = "pending" /\ sock'[s].startRet = "false"

\* the first connect attempt of socket s ends in this step in an error of
\* the transport or in its connect timeout
StartAttemptFails(s) ==
    /\ sock[s].attempt = "start"
    /\ \/ NetError(s) /\ sock[s].attemptH
       \/ ConnectTimeout(s) /\ ~sock[s].connected

\* C16: start returns true only when the connection is established, so
\* that isConnected() is true when it returns, and returns false when its
\* connect attempt ended in a transport error or in a connect timeout.
C16_StartReturnsConnected ==
    [][ \A s \in Sockets :
            /\ ReturnsTrue(s) => (cur' # 0 /\ sock'[cur'].connected)
            /\ StartAttemptFails(s) => ReturnsFalse(s)
      ]_vars

(***************************************************************************)
(* The request timeout: start with and without options.requestTimeout,     *)
(* sendRequest calls with and without a timeout argument, their timers     *)
(* and the server's responses.                                             *)
(***************************************************************************)
TimeoutsNext ==
    \/ \E o \in {NoOptions} \cup RequestTimeoutChoices : StartOnce(o)
    \/ \E s \in Sockets : NetConnect(s)
    \/ \E r \in Requests : SendRequest(r[1], r[2])
    \/ \E i \in 1..MaxCalls : RequestTimeout(i)
    \/ \E s \in Sockets, frame \in Responses : ServerSend(s, frame)
    \/ \E s \in Sockets : DataWhole(s)

SpecTimeouts == Init /\ [][TimeoutsNext]_vars

\* the timeout the options start was given configure for requests
ConfiguredTimeout ==
    IF options.hasRequestTimeout THEN options.requestTimeout
    ELSE defaultRequestTimeout

\* C18: a sendRequest call made without a timeout argument is given the
\* timeout options.requestTimeout that start was called with, and 2000 ms
\* only when requestTimeout is not configured.
C18_ConfiguredTimeoutIsUsed ==
    [][ \A r \in Requests :
            (SendRequest(r[1], r[2]) /\ ~r[2].given) =>
                calls'[Len(calls')].timeout = ConfiguredTimeout
      ]_vars

(***************************************************************************)
(* Messages without error and value: one connection, sendRequest calls,    *)
(* their timers, and responses and events that carry neither member.       *)
(***************************************************************************)
VoidFrames ==
    {<<"{", "s:okay", "i:a", "t:response", "}">>,
     <<"{", "s:error", "i:a", "t:response", "}">>,
     <<"{", "s:okay", "i:b", "t:response", "v", "}">>}

VoidNext ==
    \/ StartOnce(NoOptions)
    \/ \E s \in Sockets : NetConnect(s)
    \/ \E r \in Requests : SendRequest(r[1], r[2])
    \/ \E i \in 1..MaxCalls : RequestTimeout(i)
    \/ \E s \in Sockets, frame \in VoidFrames : ServerSend(s, frame)
    \/ \E s \in Sockets : DataWhole(s)

SpecVoid == Init /\ [][VoidNext]_vars

\* a structured message with a status, an id and a _type as the interface
\* requires, and neither error nor value
IsVoidMessage(obj) ==
    /\ obj.kind = "object"
    /\ obj.status \in {"okay", "error"}
    /\ obj.id # Undefined
    /\ obj.type \in {"response", "event"}
    /\ ~obj.error /\ ~obj.value

\* the chunk of this step holds a message without error and value under id
VoidMessageArrives(id) ==
    /\ delivered' # delivered
    /\ \E k \in DOMAIN DecodedResponses(NewChunk) :
           LET obj == JSONParse(DecodedResponses(NewChunk)[k])
           IN  IsVoidMessage(obj) /\ obj.id = id

\* C19: error and value are optional.  A frame with a valid status, an id
\* and a valid _type that carries neither error nor value is delivered to
\* the correlator: the call waiting under that id is resolved by it.
C19_VoidResponseResolves ==
    [][ \A i \in DOMAIN calls :
            (/\ calls[i].st = "pending"
             /\ calls[i].listener
             /\ VoidMessageArrives(calls[i].id)) => calls'[i].st = "resolved"
      ]_vars

(***************************************************************************)
(* The forced reconnect: the connection manager of one AsyncSocket with a  *)
(* bounded number of retries, and calls of flatlined on it and on a socket *)
(* asyncConnect was never called on.                                       *)
(***************************************************************************)
ForcedNext ==
    \/ \E o \in {c \in OptionChoices : c.max # -1} : StartOnce(o)
    \/ \E s \in Sockets : NetConnect(s)
    \/ \E s \in Sockets : NetError(s)
    \/ \E s \in Sockets : NetClose(s)
    \/ \E s \in Sockets : ConnectTimeout(s)
    \/ \E s \in Sockets : SleepDone(s)
    \/ \E s \in Sockets : Flatlined(s)

SpecForced == Init /\ [][ForcedNext]_vars

\* C20: flatlined fails, and starts no reconnect loop, on a socket on
\* which asyncConnect was never called, on one that is connected and on one
\* that is reconnecting: the loop, the reconnecting flag and the attempt
\* counter of the socket are as they were.
C20_ForcedReconnectRefused ==
    [][ \A s \in Sockets :
            (/\ Flatlined(s)
             /\ \/ NeverConnected(sock[s])
                \/ sock[s].connected
                \/ sock[s].reconnecting) =>
                /\ sock'[s].loop = sock[s].loop
                /\ sock'[s].reconnecting = sock[s].reconnecting
                /\ sock'[s].attempts = sock[s].attempts
      ]_vars

(***************************************************************************)
(* The reconnect loop: one AsyncSocket with a bounded number of retries,   *)
(* its connect attempts, the closes of its connection, and calls of        *)
(* flatlined made once the first connect attempt is over.                  *)
(***************************************************************************)
FlatlinedAfterStart(s) == sock[s].attempt # "start" /\ Flatlined(s)

ReconnectNext ==
    \/ \E o \in {c \in OptionChoices : c.max # -1} : StartOnce(o)
    \/ \E s \in Sockets : NetConnect(s)
    \/ \E s \in Sockets : NetError(s)
    \/ \E s \in Sockets : NetClose(s)
    \/ \E s \in Sockets : ConnectTimeout(s)
    \/ \E s \in Sockets : SleepDone(s)
    \/ \E s \in Sockets : FlatlinedAfterStart(s)

SpecReconnect == Init /\ [][ReconnectNext]_vars

C22_AttemptsWithinMaximum ==
    \A s \in Sockets :
        ~(sock[s].options.hasMax /\ sock[s].options.max = -1) =>
            sock[s].attempts <=
                (IF sock[s].options.hasMax THEN sock[s].options.max
                 ELSE defaultReconnectMaxRetries)

\* a socket started with reconnectMaxRetries 1 reconnected once, which
\* armed a second heartbeat timer, lost the connection again and used up
\* its one attempt
C22_Witness ==
    \E s \in Sockets :
        /\ sock[s].options.hasMax
        /\ sock[s].options.max = 1
        /\ hbStale = 1
        /\ sock[s].raised
        /\ sock[s].attempts = 1
        /\ ~sock[s].reconnecting

\* the connect attempt the loop of socket s awaits succeeds in this step
LoopAttemptSucceeds(s) ==
    /\ sock[s].attempt = "loop"
    /\ sock[s].attemptH
    /\ NetConnect(s)

LastEmitted(k) == k.emitted[Len(k.emitted)]

\* C23: when a connect attempt of the reconnect loop succeeds,
\* reconnectionAttempts is 0 and reconnecting is false by the time
\* 'reconnected' is emitted, and the next drop of the connection gets the
\* full retry budget: with reconnect enabled, the close that follows begins
\* a loop at attempt 1.
C23_ResetOnReconnect ==
    [][ \A s \in Sockets :
            /\ LoopAttemptSucceeds(s) =>
                    /\ sock'[s].attempts = 0
                    /\ ~sock'[s].reconnecting
                    /\ sock'[s].connected
                    /\ Len(sock'[s].emitted) = Len(sock[s].emitted) + 1
                    /\ LastEmitted(sock'[s]).name = "reconnected"
                    /\ LastEmitted(sock'[s]).attemptCount = 0
            /\ (/\ sock[s].emitted # <<>>
                /\ LastEmitted(sock[s]).name = "reconnected"
                /\ sock[s].closeH
                /\ NetClose(s)) =>
                    /\ sock'[s].reconnecting
                    /\ sock'[s].loop = "sleep"
                    /\ sock'[s].attempts = 1
      ]_vars

\* a loop failed an attempt, succeeded at the next and emitted
\* 'reconnected' with the counter back at 0
C23_Witness ==
    \E s \in Sockets :
        /\ Len(sock[s].emitted) = 4
        /\ sock[s].emitted[2].name = "reconnectFailed"
        /\ sock[s].emitted[4].name = "reconnected"
        /\ sock[s].attempts = 0
        /\ sock[s].connected
        /\ ~sock[s].reconnecting

\* the connect attempt the loop of socket s awaited is over in this step
LoopAttemptOver(s) == sock[s].attempt = "loop" /\ sock'[s].attempt # "loop"

\* C24: every attempt of the loop increments the counter, emits
\* 'reconnecting', waits and then attempts a connect; each attempt is
\* followed by exactly one of 'reconnected', which ends the loop, and
\* 'reconnectFailed' with the current attempt count and the maximum; no
\* 'reconnecting' follows the 'reconnected' of the same loop.  The events of
\* a loop are 'reconnecting' at the odd places, emitted with the counter at
\* the number of the attempt, and the outcome of that attempt at the even
\* places.
C24_AttemptOrder ==
    [][ \A s \in Sockets :
            LET k == sock'[s]
                e == k.emitted
            IN  /\ \A i \in DOMAIN e :
                      /\ i % 2 = 1 =>
                            /\ e[i].name = "reconnecting"
                            /\ e[i].attemptCount = (i + 1) \div 2
                      /\ i % 2 = 0 =>
                            /\ e[i].name \in {"reconnected", "reconnectFailed"}
                            /\ e[i].name = "reconnectFailed" =>
                                  /\ e[i].attemptCount = i \div 2
                                  /\ e[i].maxAttempts =
                                         (IF k.options.hasMax THEN k.options.max
                                          ELSE defaultReconnectMaxRetries)
                            /\ e[i].name = "reconnected" => i = Len(e)
                /\ k.loop \in {"sleep", "attempt"} =>
                      /\ e # <<>>
                      /\ LastEmitted(k).name = "reconnecting"
                      /\ LastEmitted(k).attemptCount = k.attempts
                /\ (k.attempt = "loop") = (k.loop = "attempt")
                /\ (k.loop = "attempt" /\ sock[s].loop # "attempt") =>
                      sock[s].loop = "sleep"
                /\ LoopAttemptOver(s) =>
                      /\ Len(e) > Len(sock[s].emitted)
                      /\ e[Len(sock[s].emitted) + 1].name \in
                             {"reconnected", "reconnectFailed"}
                      /\ e[Len(sock[s].emitted) + 1].name = "reconnected" =>
                             k.loop = "none"
      ]_vars

\* a loop under the default maximum failed twice and then reconnected
C24_Witness ==
    \E s \in Sockets :
        /\ ~sock[s].options.hasMax
        /\ Len(sock[s].emitted) = 6
        /\ sock[s].emitted[2] = [name |-> "reconnectFailed", attemptCount |-> 1,
                                 maxAttempts |-> defaultReconnectMaxRetries]
        /\ sock[s].emitted[4] = [name |-> "reconnectFailed", attemptCount |-> 2,
                                 maxAttempts |-> defaultReconnectMaxRetries]
        /\ sock[s].emitted[6].name = "reconnected"

(***************************************************************************)
(* The heartbeat check timers: one call of start, the connect attempts,    *)
(* the closes and the reconnect loop of its socket, and the heartbeat      *)
(* check, which replaces the socket and calls start again.                 *)
(***************************************************************************)
TimersNext ==
    \/ \E o \in OptionChoices : StartOnce(o)
    \/ \E s \in Sockets : NetConnect(s)
    \/ \E s \in Sockets : NetError(s)
    \/ \E s \in Sockets : NetClose(s)
    \/ \E s \in Sockets : ConnectTimeout(s)
    \/ \E s \in Sockets : SleepDone(s)
    \/ \E latest \in BOOLEAN : HeartbeatCheck(latest)

SpecTimers == Init /\ [][TimersNext]_vars

\* the intervals setInterval has armed and clearInterval has not cleared
ArmedTimers == (IF hbLatest THEN 1 ELSE 0) + hbStale

\* the check made last tore the socket down and the start it called has
\* not returned
RestartUnderWay ==
    /\ checks # <<>>
    /\ checks[Len(checks)].restarted
    /\ cur # 0
    /\ sock[cur].startRet = "pending"

\* C25: at most one heartbeat check timer is armed at any time, and none
\* is armed between a teardown made by the heartbeat check and the end of
\* the connection attempt that follows, across start, automatic
\* reconnection and restarts made by the heartbeat check.
C25_OneHeartbeatTimer ==
    /\ ArmedTimers <= 1
    /\ RestartUnderWay => ArmedTimers = 0

(***************************************************************************)
(* The routing of decoded frames: one connection, subscribers, and         *)
(* responses, events and heartbeats handed to the data handler in chunks   *)
(* of whole frames.                                                        *)
(***************************************************************************)
RoutedFrames ==
    {<<"{", "s:okay", "i:a", "t:response", "v", "}">>,
     <<"{", "s:error", "i:b", "t:event", "e", "}">>,
     <<"h", "b", "7">>}

RoutingNext ==
    \/ StartOnce(NoOptions)
    \/ \E s \in Sockets : NetConnect(s)
    \/ \E callback \in Callbacks : Subscribe(callback)
    \/ \E s \in Sockets, frame \in RoutedFrames : ServerSend(s, frame)
    \/ \E s \in Sockets : DataWhole(s)

SpecRouting == Init /\ [][RoutingNext]_vars

\* what the data handler dispatched in this step
NewDispatches == SubSeq(dispatched', Len(dispatched) + 1, Len(dispatched'))

IsMessage(d) == d.what = "message"

\* the fragment is a valid structured message
IsValidMessage(res) ==
    /\ ~StartsWithHb(res)
    /\ JSONParse(res).kind = "object"
    /\ isInstanceOfSocketAPIMessage(JSONParse(res))

RECURSIVE Joined(_)
Joined(ds) ==
    IF ds = <<>> THEN <<>>
    ELSE Head(ds).text \o Sentinel \o Joined(Tail(ds))

C28_SettlingIsIndependent ==
    [][ \A j \in Pending :
            (/\ \A m \in NewMessages : m.id # calls[j].id
             /\ ~RequestTimeout(j)) => calls'[j] = calls[j]
      ]_vars

\* two calls made while connected under different ids: the later one was
\* rejected by its timer, the earlier one still waits with its listener
\* registered and its timer armed
C28_Witness ==
    \E i, j \in DOMAIN calls :
        /\ j < i
        /\ calls[i].conn /\ calls[j].conn
        /\ calls[i].id # calls[j].id
        /\ calls[i].st = "rejected"
        /\ calls[i].reason.kind = "timeout"
        /\ calls[j].st = "pending"
        /\ calls[j].listener
        /\ calls[j].timer

(***************************************************************************)
(* Requests while the connection comes and goes: one call of start, the    *)
(* closes of its socket, the reconnect loop when start was given           *)
(* reconnect, the heartbeat check and its restart when it was not,         *)
(* sendRequest calls, and the server's responses.  A timer that is armed   *)
(* fires after its delay: the firing of the timer of each call is weakly   *)
(* fair.                                                                   *)
(***************************************************************************)
\* the one request made, and its response
SettlingRequest == <<"a", [given |-> FALSE, ms |-> 0]>>

SettlingResponse == <<"{", "s:okay", "i:a", "t:response", "v", "}">>

\* the heartbeat check of a client whose socket does not reconnect
HeartbeatCheckWithoutReconnect == ~options.reconnect /\ HeartbeatCheck(TRUE)

SettlingNext ==
    \/ \E o \in {c \in OptionChoices : ~c.hasMax} : StartOnce(o)
    \/ \E s \in Sockets : NetConnect(s)
    \/ \E s \in Sockets : NetClose(s)
    \/ \E s \in Sockets : SleepDone(s)
    \/ HeartbeatCheckWithoutReconnect
    \/ SendRequest(SettlingRequest[1], SettlingRequest[2])
    \/ \E i \in 1..MaxCalls : RequestTimeout(i)
    \/ \E s \in Sockets : ServerSend(s, SettlingResponse)
    \/ \E s \in Sockets : DataWhole(s)

SpecSettling ==
    /\ Init
    /\ [][SettlingNext]_vars
    /\ \A i \in 1..MaxCalls : WF_vars(RequestTimeout(i))

\* C29: every sendRequest call eventually settles.  With the timers
\* firing, a call that was made is in the end resolved or rejected,
\* whatever happens to the connection in the meantime.
C29_EveryCallSettles ==
    \A i \in 1..MaxCalls :
        (i \in DOMAIN calls) ~>
            (i \in DOMAIN calls /\ calls[i].st # "pending")

\* a call made while connected was rejected by its timer after the
\* heartbeat check had replaced the socket, with the new socket not yet
\* connected
C29_Witness ==
    \E i \in DOMAIN calls :
        /\ calls[i].conn
        /\ calls[i].st = "rejected"
        /\ calls[i].reason.kind = "timeout"
        /\ nSockets = 2
        /\ cur = 2
        /\ ~sock[2].connected

(***************************************************************************)
(* Calls that fail at once, under SpecRequests.                            *)
(***************************************************************************)
\* C30: a sendRequest call that fails because the client is not connected
\* or because request.id is undefined has no side effect: nothing is
\* written to the socket, no messageReceived listener is registered and no
\* timer is armed.
C30_FailedCallHasNoSideEffect ==
    [][ \A r \in Requests :
            (/\ SendRequest(r[1], r[2])
             /\ ~isConnected \/ r[1] = Undefined) =>
                /\ written' = written
                /\ ~calls'[Len(calls')].listener
                /\ ~calls'[Len(calls')].timer
      ]_vars

(***************************************************************************)
(* The data handler of the client: one call of start, connect attempts     *)
(* that succeed or fail on an error of the transport, the closes and the   *)
(* reconnect loop of the socket, and the server's heartbeats.              *)
(***************************************************************************)
AttachedNext ==
    \/ \E o \in OptionChoices : StartOnce(o)
    \/ \E s \in Sockets : NetConnect(s)
    \/ \E s \in Sockets : NetError(s)
    \/ \E s \in Sockets : NetClose(s)
    \/ \E s \in Sockets : SleepDone(s)
    \/ \E s \in Sockets, frame \in HeartbeatFrames : ServerSend(s, frame)
    \/ \E s \in Sockets : DataWhole(s)

SpecAttached == Init /\ [][AttachedNext]_vars

\* C31: whenever isConnected() is true, exactly one data handler of the
\* client is attached to the current socket, also when the connection was
\* made by the reconnect loop after start had returned false.
C31_DataHandlerWhenConnected ==
    isConnected => sock[cur].dataH = 1

(***************************************************************************)
(* A 'connect' that comes after the connect timeout, under SpecConn.       *)
(***************************************************************************)
\* socket s emits 'connect' while no connect attempt is awaited: the event
\* belongs to an attempt whose timeout has fired
LateConnect(s) == sock[s].attempt = "none" /\ NetConnect(s)

\* C32: after a connect attempt has timed out, a 'connect' event of that
\* attempt that arrives later does not mark the socket connected:
\* isConnected() stays false until a new attempt succeeds.
C32_LateConnectIgnored ==
    [][ \A s \in Sockets :
            (LateConnect(s) /\ ~sock[s].connected) => ~sock'[s].connected
      ]_vars

(***************************************************************************)
(* The sockets the client has replaced, under SpecTimers.                  *)
(***************************************************************************)
\* socket s has a connection, a connect under way or a reconnect loop
Active(s) ==
    \/ sock[s].net \in {"connecting", "open"}
    \/ sock[s].loop # "none"

\* the sockets start has created and this.socket no longer names
Replaced == {s \in 1..nSockets : s # cur}

\* C33: at any time at most one socket created by the client is connected,
\* connecting or in a reconnect loop: a socket that was replaced or torn
\* down makes no connect attempt and has no listener of the client left
\* through which messages or 'reconnected' could reach it.
C33_OneActiveSocket ==
    /\ Cardinality({s \in Sockets : Active(s)}) <= 1
    /\ \A s \in Replaced :
          /\ ~Active(s)
          /\ sock[s].dataH = 0
          /\ ~sock[s].clientH

====
